---- MODULE Spec2Model ----
(***************************************************************************)
(* epicbox: the sandbox lifecycle (create, start, destroy, run), the       *)
(* working_directory scope and the attach communicator docker_communicate, *)
(* modelled from src/epicbox/sandboxes.py, src/epicbox/utils.py and        *)
(* src/epicbox/config.py.                                                  *)
(*                                                                         *)
(* Python values: an optional value is a set, None == {} and v is {v}.     *)
(* A bytes object is a sequence of integers 0..255.  A dict is a function  *)
(* whose domain is its set of keys.  Time is counted in clock ticks of     *)
(* 50 ms, so that select's 1 second and the idle sleep of 0.05 seconds are *)
(* both whole numbers of ticks.  Structured logging is left at Python's    *)
(* default level: info events are dropped before their values are          *)
(* rendered.                                                               *)
(***************************************************************************)
EXTENDS Integers, Sequences, FiniteSets, TLC

None == {}
Some(v) == {v}
The(o) == CHOOSE v \in o : TRUE

Min(a, b) == IF a <= b THEN a ELSE b

\* the number of occurrences of x in the sequence s
Count(x, s) == Cardinality({i \in 1..Len(s) : s[i] = x})

(***************************************************************************)
(* Bounds of the model.                                                    *)
(***************************************************************************)
\* realtime limits passed by the caller are 1..MaxRealtime seconds (or None)
MaxRealtime == 1
\* stdin passed to start has at most MaxStdin bytes
MaxStdin == 2
\* at most MaxReads non-empty chunks are read from the attach socket per start
MaxReads == 1
\* StartedAt and FinishedAt reported by the engine are 0 or MaxTime seconds
MaxTime == 2
\* start is called at most MaxStarts times on one sandbox created outside a
\* working directory
MaxStarts == 2
\* and at most MaxStartsInWorkdir times on one created inside
MaxStartsInWorkdir == 1
\* a limit given to merge_limits_defaults is None or 1..MaxLimit
MaxLimit == 2
\* a multiplexed stream has at most MaxFrames frames
MaxFrames == 3
\* the payload of a frame has at most MaxPayload bytes
MaxPayload == 1
\* _write_files is given at most MaxFiles files
MaxFiles == 2
\* configure is called at most MaxConfigures times
MaxConfigures == 2
\* MaxThreads threads call get_docker_client, once each
MaxThreads == 2

(***************************************************************************)
(* Program constants.                                                      *)
(***************************************************************************)
\* select.select([sock], [sock], [], 1): 1 second, in ticks
SelectTimeout == 20
\* time.sleep(0.05): in ticks
IdleSleep == 1
\* n seconds in ticks (select's timeout is one second)
Seconds(n) == n * SelectTimeout
\* signal.SIGKILL and signal.SIGXCPU on Linux
SIGKILL == 9
SIGXCPU == 24
\* docker_consts.STREAM_HEADER_SIZE_BYTES, the literal 8 of the walk
STREAM_HEADER_SIZE_BYTES == 8
CPU_TO_REAL_TIME_FACTOR == 5
DEFAULT_LIMITS == [cputime |-> Some(1), realtime |-> Some(5), memory |-> Some(64)]
\* config.DEFAULT_USER
DEFAULT_USER == "root"

(***************************************************************************)
(* Pure functions of utils.py.                                             *)
(***************************************************************************)
\* d[k] = v on a dict
DictSet(d, k, v) == [x \in (DOMAIN d) \cup {k} |-> IF x = k THEN v ELSE d[x]]

\* a merge in which the defaults override the caller's values
FillDefaultsOverride(limits) ==
    [x \in (DOMAIN limits) \cup (DOMAIN DEFAULT_LIMITS) |->
        IF x \in DOMAIN DEFAULT_LIMITS THEN DEFAULT_LIMITS[x] ELSE limits[x]]

\* the for loop of merge_limits_defaults: every default key absent from
\* limits is set to its default value
FillDefaults(limits) ==
    [x \in (DOMAIN limits) \cup (DOMAIN DEFAULT_LIMITS) |->
        IF x \in DOMAIN limits THEN limits[x] ELSE DEFAULT_LIMITS[x]]

\* a merge that derived realtime from cputime whether or not it was given
merge_limits_rederives(limits) ==
    IF limits = None \/ DOMAIN The(limits) = {}
    THEN [exc |-> "none", merged |-> DEFAULT_LIMITS, caller |-> limits]
    ELSE LET l1 == FillDefaults(The(limits))
         IN IF l1["cputime"] = None
            THEN [exc |-> "TypeError", merged |-> l1, caller |-> Some(l1)]
            ELSE LET l2 == DictSet(l1, "realtime",
                             Some(The(l1["cputime"]) * CPU_TO_REAL_TIME_FACTOR))
                 IN [exc |-> "none", merged |-> l2, caller |-> Some(l2)]

\* merge_limits_defaults(limits), limits being None ({}) or a dict ({d}).
\* exc: the exception raised ("none" when it returns); merged: the returned
\* dict; caller: the caller's object after the call (it is updated in place).
merge_limits_defaults(limits) ==
    IF limits = None \/ DOMAIN The(limits) = {}
    THEN [exc |-> "none", merged |-> DEFAULT_LIMITS, caller |-> limits]
    ELSE LET l0 == The(limits)
             is_realtime_specified == "realtime" \in DOMAIN l0
             l1 == FillDefaults(l0)
         IN IF is_realtime_specified
            THEN [exc |-> "none", merged |-> l1, caller |-> Some(l1)]
            ELSE IF l1["cputime"] = None
                 THEN [exc |-> "TypeError", merged |-> l1, caller |-> Some(l1)]
                 ELSE LET l2 == DictSet(l1, "realtime",
                                  Some(The(l1["cputime"]) * CPU_TO_REAL_TIME_FACTOR))
                      IN [exc |-> "none", merged |-> l2, caller |-> Some(l2)]

\* a start that took every death by a signal for a timeout
KilledByAnySignal(status) == status > 128

\* is_killed_by_sigkill_or_sigxcpu(status)
is_killed_by_sigkill_or_sigxcpu(status) == (status - 128) \in {SIGKILL, SIGXCPU}

\* data[start:end] of Python, on a sequence
Slice(data, start, end) == SubSeq(data, start + 1, Min(end, Len(data)))

\* struct.unpack_from('>BxxxL', header): the selector and the 32-bit
\* big-endian length
HeaderLength(h) == ((h[5] * 256 + h[6]) * 256 + h[7]) * 256 + h[8]

\* a walk that stops at a frame whose payload is not all there
RECURSIVE DemuxWalkWholeFrames(_, _, _, _)
DemuxWalkWholeFrames(data, walker, out, err) ==
    IF Len(data) - walker >= 8
    THEN LET header == Slice(data, walker, walker + STREAM_HEADER_SIZE_BYTES)
             stream_type == header[1]
             start == walker + STREAM_HEADER_SIZE_BYTES
             end == start + HeaderLength(header)
         IN IF end > Len(data) THEN [stdout |-> out, stderr |-> err]
            ELSE DemuxWalkWholeFrames(data, end,
                      IF stream_type = 1 THEN out \o Slice(data, start, end) ELSE out,
                      IF stream_type = 2 THEN err \o Slice(data, start, end) ELSE err)
    ELSE [stdout |-> out, stderr |-> err]

\* a walk that reads the next header right after the previous one
RECURSIVE DemuxWalkHeadersOnly(_, _, _, _)
DemuxWalkHeadersOnly(data, walker, out, err) ==
    IF Len(data) - walker >= 8
    THEN LET header == Slice(data, walker, walker + STREAM_HEADER_SIZE_BYTES)
             stream_type == header[1]
             start == walker + STREAM_HEADER_SIZE_BYTES
             end == start + HeaderLength(header)
         IN DemuxWalkHeadersOnly(data, start,
                      IF stream_type = 1 THEN out \o Slice(data, start, end) ELSE out,
                      IF stream_type = 2 THEN err \o Slice(data, start, end) ELSE err)
    ELSE [stdout |-> out, stderr |-> err]

RECURSIVE DemuxWalk(_, _, _, _)
DemuxWalk(data, walker, out, err) ==
    IF Len(data) - walker >= 8
    THEN LET header == Slice(data, walker, walker + STREAM_HEADER_SIZE_BYTES)
             stream_type == header[1]
             start == walker + STREAM_HEADER_SIZE_BYTES
             end == start + HeaderLength(header)
         IN DemuxWalk(data, end,
                      IF stream_type = 1 THEN out \o Slice(data, start, end) ELSE out,
                      IF stream_type = 2 THEN err \o Slice(data, start, end) ELSE err)
    ELSE [stdout |-> out, stderr |-> err]

\* demultiplex_docker_stream(data)
demultiplex_docker_stream(data) == DemuxWalk(data, 0, <<>>, <<>>)

\* an inspection that reported the signal number of a killed container
ExitedStateSignal(attrs) ==
    LET duration_seconds == attrs.FinishedAt - attrs.StartedAt
    IN [exit_code |-> Some(IF attrs.ExitCode > 128 THEN attrs.ExitCode - 128
                           ELSE attrs.ExitCode),
        duration |-> Some(IF duration_seconds < 0 THEN -1 ELSE duration_seconds),
        oom_killed |-> attrs.OOMKilled]

\* an inspection that reported a negative difference as it is
ExitedStateUnclamped(attrs) ==
    [exit_code |-> Some(attrs.ExitCode),
     duration |-> Some(attrs.FinishedAt - attrs.StartedAt),
     oom_killed |-> attrs.OOMKilled]

\* inspect_exited_container_state: the dict computed from container.attrs
\* after a successful reload
ExitedState(attrs) ==
    LET duration_seconds == attrs.FinishedAt - attrs.StartedAt
    IN [exit_code |-> Some(attrs.ExitCode),
        duration |-> Some(IF duration_seconds < 0 THEN -1 ELSE duration_seconds),
        oom_killed |-> attrs.OOMKilled]

(***************************************************************************)
(* State.                                                                  *)
(***************************************************************************)
VARIABLES
    pc,            \* where the API call in progress stands ("idle": none)
    call,          \* the outermost API function called last: run, create, start, destroy
    args,          \* create's arguments profile_name, files, workdir
    limits,        \* the caller's limits object handed to create (None or a dict)
    given,         \* that object as it was when create was called
    environment,   \* the environment of the last create request: None or the node constrained to
    merged,        \* create's local limits after merge_limits_defaults
    c,             \* create's local c: "none", "Container" or "dict" ({'Id': name})
    sandbox,       \* the Sandbox returned by create, or None
    engine,        \* the engine's container: absent, created, started, removed
    reqs,          \* the engine requests issued for this sandbox, in order
    attrs,         \* container.attrs['State'] after the last reload, or None
    result,        \* the result dict of the last start, or None
    raised,        \* the exception that left the last API call, "none" if it returned
    wd,            \* the working_directory scope: none, open, closed
    wd_node,       \* workdir.node
    body_exc,      \* the exception the body of the scope raised, "none" if it completed
    wd_removals,   \* volume.remove() calls made for this scope
    wd_resp,       \* the engine's answer to the volume removal
    wd_raised,     \* the exception that left the with statement, "none" if none
    cpc,           \* where docker_communicate stands
    comm_exc,      \* the exception docker_communicate raised
    comm_out,      \* the (stdout, stderr) docker_communicate returned
    broke,         \* why the loop was left by break: eof, ConnectionResetError, BrokenPipeError
    timeout,       \* docker_communicate's timeout argument, in seconds, or None
    stdin,         \* docker_communicate's stdin: the bytes not yet written
    stdin_arg,     \* the stdin value start was called with
    wrote,         \* the bytes os.write put on the attach socket, step by step
    stream_data,   \* the bytes read from the attach socket
    nreads,        \* non-empty chunks read during this call
    elapsed,       \* time.time() - start_time, in ticks
    read_ready,    \* select's answer, until the body of the loop has used it
    write_ready,
    sock,          \* the attach socket: none, open, closed
    wr_shutdowns,  \* shutdown(SHUT_WR) calls made on the socket
    frames,        \* the (selector, payload) frames the engine multiplexed
    files,         \* the files argument of _write_files
    tarball,       \* the members of the archive _write_files built, in order
    PROFILES,      \* config.PROFILES: profile name -> Profile
    DOCKER_URL,    \* config.DOCKER_URL: None or the URL configure was given
    configured,    \* the profiles arguments of the configure calls made, in order
    lookup,        \* the profile name create looked up last, and what it found
    DOCKER_CLIENTS,  \* utils._DOCKER_CLIENTS: client key -> client
    built,         \* the client key of every DockerClient constructed, in order
    bound,         \* the base_url every DockerClient was constructed with, in order
    threads        \* per thread in get_docker_client: position, base_url, key, local client,
                   \* value returned

life_vars == <<pc, call, args, limits, given, environment, merged, c, sandbox, engine, reqs,
               attrs, result, raised>>
wd_vars == <<wd, wd_node, body_exc, wd_removals, wd_resp, wd_raised>>
comm_vars == <<cpc, comm_exc, comm_out, broke, timeout, stdin, stdin_arg, wrote, stream_data, nreads,
               elapsed, read_ready, write_ready, sock, wr_shutdowns>>
pure_vars == <<frames, files, tarball>>
config_vars == <<PROFILES, DOCKER_URL, configured, lookup>>
client_vars == <<DOCKER_CLIENTS, built, bound, threads>>
other_vars == <<pure_vars, config_vars, client_vars>>
vars == <<life_vars, wd_vars, comm_vars, other_vars>>

NoArgs == [profile |-> "python", files |-> FALSE, workdir |-> "None"]
NoOut == [stdout |-> <<>>, stderr |-> <<>>]

\* the values a caller passes
ProfileArgs == DOMAIN PROFILES \cup {"unknown"}
WorkdirArgs == {"None", "workdir", "str"}
LimitsArgs ==
    {None, Some(<<>>), Some("pids-limit" :> Some(-1)),
     Some([processes |-> Some(-1), realtime |-> None])}
    \cup {Some([processes |-> Some(-1), realtime |-> Some(r)]) : r \in 1..MaxRealtime}
\* a Python value passed as stdin: its type and its items (the bytes of a
\* bytes object, the code points of a str, the items of a list, the number)
PyValue(type, val) == [type |-> type, val |-> val]
NoStdin == PyValue("NoneType", <<>>)
\* the values docker_communicate is documented to take: None and bytes
\* objects of 0..MaxStdin distinct bytes
BytesArgs == {NoStdin} \cup {PyValue("bytes", [i \in 1..n |-> 103 + i]) : n \in 0..MaxStdin}
\* the values a caller passes to start: those, '' and 'e' with an acute
\* accent, 0 and 1, [] and a list of one item
StdinArgs ==
    BytesArgs \cup {PyValue("str", <<>>), PyValue("str", <<233>>),
                    PyValue("int", <<0>>), PyValue("int", <<1>>),
                    PyValue("list", <<>>), PyValue("list", <<104>>)}

\* bool(v) of Python
Truthy(v) ==
    CASE v.type = "NoneType" -> FALSE
      [] v.type = "int" -> v.val[1] # 0
      [] OTHER -> v.val # <<>>

\* str.encode(): UTF-8, for code points below 2048
RECURSIVE EncodeUtf8(_)
EncodeUtf8(cps) ==
    IF cps = <<>> THEN <<>>
    ELSE LET cp == Head(cps)
         IN (IF cp < 128 THEN <<cp>> ELSE <<192 + (cp \div 64), 128 + (cp % 64)>>)
            \o EncodeUtf8(Tail(cps))

\* start, lines 158-162: the exception raised for the stdin value v and the
\* value handed to docker_communicate
StartStdin(v) ==
    IF Truthy(v)
    THEN IF v.type \notin {"bytes", "str"} THEN [exc |-> "TypeError", stdin |-> v]
         ELSE IF v.type = "str"
              THEN [exc |-> "none", stdin |-> PyValue("bytes", EncodeUtf8(v.val))]
              ELSE [exc |-> "none", stdin |-> v]
    ELSE [exc |-> "none", stdin |-> v]

\* the bytes docker_communicate will write for its stdin argument v: a falsy
\* value is never written (utils.py lines 188 and 214)
StdinBytes(v) == IF Truthy(v) THEN v.val ELSE <<>>

\* what the engine (or the HTTP layer) answers
CreateResponses == {"ok", "409", "error"}
NodeResponses == {"node1", "node2", "no_node", "error"}
Responses == {"ok", "error"}
RemoveResponses == {"ok", "NotFound", "APIError", "RequestException"}
\* exit statuses: success, and death by SIGKILL, SIGTERM (15) and SIGXCPU
ExitCodes == {0, 128 + SIGKILL, 128 + 15, 128 + SIGXCPU}
\* the timestamps the engine reports, in seconds
Timestamps == {0, MaxTime}
StateAttrs ==
    [ExitCode : ExitCodes, StartedAt : Timestamps, FinishedAt : Timestamps,
     OOMKilled : BOOLEAN]

CommIdle ==
    /\ cpc = "idle" /\ comm_exc = "none" /\ comm_out = NoOut /\ broke = "none"
    /\ timeout = None
    /\ stdin = <<>> /\ stdin_arg = NoStdin /\ wrote = <<>>
    /\ stream_data = <<>> /\ nreads = 0 /\ elapsed = 0
    /\ read_ready = FALSE /\ write_ready = FALSE
    /\ sock = "none" /\ wr_shutdowns = 0

\* the outcome of the last docker_communicate is dropped
CommForget ==
    /\ cpc' = "idle" /\ comm_exc' = "none" /\ comm_out' = NoOut /\ broke' = "none"
    /\ timeout' = None
    /\ stdin' = <<>> /\ stdin_arg' = NoStdin /\ wrote' = <<>>
    /\ stream_data' = <<>> /\ nreads' = 0 /\ elapsed' = 0
    /\ read_ready' = FALSE /\ write_ready' = FALSE
    /\ sock' = "none" /\ wr_shutdowns' = 0

\* Profile(name, **profile_kwargs) (config.py 37-45): user is None in the
\* keyword arguments when the caller leaves it out
Profile(name, kwargs) ==
    [name |-> name, user |-> IF kwargs.user = None THEN DEFAULT_USER ELSE The(kwargs.user)]

\* dict.update: the entries of m, and those of d under the other keys
DictUpdate(d, m) ==
    [k \in DOMAIN d \cup DOMAIN m |-> IF k \in DOMAIN m THEN m[k] ELSE d[k]]

\* configure(profiles) (config.py 48-58) for a dict of keyword arguments:
\* config.PROFILES afterwards
configure(registered, profiles) ==
    LET profiles_map == [name \in DOMAIN profiles |-> Profile(name, profiles[name])]
    IN DictUpdate(registered, profiles_map)

NoLookup == [name |-> "none", exc |-> "none", user |-> None]

\* the state that belongs to the other functions of the package; the
\* caller has configured the profile python
PureIdle == frames = <<>> /\ files = <<>> /\ tarball = <<>>
ConfigIdle ==
    /\ PROFILES = configure(<<>>, [n \in {"python"} |-> [user |-> None]])
    /\ DOCKER_URL = None
    /\ configured = <<>> /\ lookup = NoLookup
\* no thread is in get_docker_client and no client is cached
Threads == 1..MaxThreads
NoClientCall == [pc |-> "out", base_url |-> None, key |-> "none", client |-> 0, ret |-> 0]
ClientIdle ==
    /\ DOCKER_CLIENTS = <<>> /\ built = <<>> /\ bound = <<>>
    /\ threads = [t \in Threads |-> NoClientCall]
OtherIdle == PureIdle /\ ConfigIdle /\ ClientIdle

Init ==
    /\ OtherIdle
    /\ pc = "idle" /\ call = "none" /\ args = NoArgs
    /\ limits = None /\ given = None /\ environment = None
    /\ merged = DEFAULT_LIMITS /\ c = "none" /\ sandbox = None
    /\ engine = "absent" /\ reqs = <<>> /\ attrs = None /\ result = None
    /\ raised = "none"
    /\ wd = "none" /\ wd_node = None /\ body_exc = "none" /\ wd_removals = 0
    /\ wd_resp = "none" /\ wd_raised = "none"
    /\ CommIdle

(***************************************************************************)
(* create (sandboxes.py 43-87) and _create_sandbox_container (90-142).     *)
(***************************************************************************)
\* an API call ends: the exception e leaves it ("none": it returns).  Inside
\* run, an exception raised by create leaves run at once: the with statement
\* of run has not been entered.
EndCall(e) ==
    /\ pc' = "idle"
    /\ raised' = e
    /\ args' = NoArgs /\ merged' = DEFAULT_LIMITS /\ c' = "none"

\* the Sandbox object create returns
NewSandbox(container, lim) == [container |-> container, realtime_limit |-> lim["realtime"]]

\* _create_sandbox_container up to and including the create request.
\* exc: the exception raised; c: the handle returned; sent: whether the
\* request was issued; created: whether the engine now holds the container.
\* A 409 answers a create that an earlier attempt of the same request
\* (a retry of the HTTP adapter) already carried out.
CreateSandboxContainer(lim, resp) ==
    IF "processes" \notin DOMAIN lim
    THEN [exc |-> "KeyError", c |-> "none", sent |-> FALSE, created |-> FALSE]
    ELSE CASE resp = "ok" ->
                [exc |-> "none", c |-> "Container", sent |-> TRUE, created |-> TRUE]
           [] resp = "409" ->
                [exc |-> "none", c |-> "dict", sent |-> TRUE, created |-> TRUE]
           [] OTHER ->
                [exc |-> "DockerError", c |-> "none", sent |-> TRUE, created |-> FALSE]

\* a create that checked the profile name only
CreateChecksProfileOnly(p, w) == IF p \notin DOMAIN PROFILES THEN "ValueError" ELSE "none"

\* create, lines 60-64: the exception raised for the profile name p and the
\* workdir w ("str": a value that is no _WorkingDirectory)
CreateChecks(p, w) ==
    IF p \notin DOMAIN PROFILES THEN "ValueError"
    ELSE IF w \notin {"None", "workdir"} THEN "ValueError"
    ELSE "none"

\* _create_sandbox_container, lines 102-106: the environment passed to the
\* create request, None or the constraint on the node of the workdir
Environment(w, node) == IF w # "None" /\ node # None THEN node ELSE None

\* create is called, directly (who = "create") or by run (who = "run"): the
\* outcome of the previous call is dropped
EnterCreate(who) ==
    /\ pc = "idle" /\ wd \in {"none", "open"}
    /\ pc' = "create" /\ call' = who
    /\ args' = NoArgs /\ limits' = None /\ given' = None /\ environment' = None
    /\ merged' = DEFAULT_LIMITS /\ c' = "none" /\ sandbox' = None
    /\ engine' = "absent" /\ reqs' = <<>> /\ attrs' = None /\ result' = None
    /\ raised' = "none"
    /\ CommForget
    /\ UNCHANGED wd_vars
    /\ UNCHANGED other_vars

\* create, lines 60-74.  The engine answers only a request that is sent.
\* After a ValueError args keeps the rejected profile name and workdir.
BeginCreate ==
    /\ pc = "create"
    /\ \E p \in ProfileArgs, w \in WorkdirArgs, l \in LimitsArgs :
        LET m == merge_limits_defaults(l)
            checks == CreateChecks(p, w)
            early == IF checks # "none" THEN checks ELSE m.exc
            sent == CreateSandboxContainer(m.merged, "ok").sent
        IN /\ w = "workdir" => wd = "open"
           /\ given' = l
           /\ sandbox' = None /\ attrs' = None /\ result' = None
           /\ IF early # "none"
              THEN /\ pc' = "idle" /\ raised' = early
                   /\ args' = IF checks # "none"
                              THEN [profile |-> p, files |-> FALSE, workdir |-> w]
                              ELSE NoArgs
                   /\ merged' = DEFAULT_LIMITS /\ c' = "none"
                   /\ limits' = IF checks # "none" THEN l ELSE m.caller
                   /\ engine' = "absent" /\ reqs' = <<>> /\ environment' = None
              ELSE /\ limits' = m.caller
                   /\ \E f \in BOOLEAN, resp \in CreateResponses :
                       LET k == CreateSandboxContainer(m.merged, resp)
                       IN /\ ~sent => (~f /\ resp = "ok")
                          /\ reqs' = IF k.sent THEN <<"create">> ELSE <<>>
                          /\ environment' = IF k.sent THEN Environment(w, wd_node) ELSE None
                          /\ engine' = IF k.created THEN "created" ELSE "absent"
                          /\ IF k.exc # "none"
                             THEN EndCall(k.exc)
                             ELSE /\ pc' = "create_node" /\ raised' = "none"
                                  /\ args' = [profile |-> p, files |-> f, workdir |-> w]
                                  /\ merged' = m.merged /\ c' = k.c
    /\ UNCHANGED <<call, wd_vars, comm_vars>>
    /\ UNCHANGED other_vars

CreateCall == EnterCreate("create")

\* inspect_container_node(c) (utils.py 48-60): the exception raised and the
\* node name returned
InspectContainerNode(container, resp) ==
    IF container = "dict" THEN [exc |-> "AttributeError", node |-> None, sent |-> FALSE]
    ELSE CASE resp \in {"node1", "node2"} -> [exc |-> "none", node |-> Some(resp), sent |-> TRUE]
           [] resp = "no_node" -> [exc |-> "none", node |-> None, sent |-> TRUE]
           [] OTHER -> [exc |-> "DockerError", node |-> None, sent |-> TRUE]

\* a create that inspected the node of every container
InspectsAlways(w, node) == w # "None"

\* create, line 75: workdir and not workdir.node
NeedsNodeInspection(w, node) == w # "None" /\ node = None

\* create, lines 75-82
CreateNode ==
    /\ pc = "create_node"
    /\ IF NeedsNodeInspection(args.workdir, wd_node)
       THEN \E resp \in NodeResponses :
               LET n == InspectContainerNode(c, resp)
               IN /\ reqs' = IF n.sent THEN Append(reqs, "inspect_node") ELSE reqs
                  /\ IF n.exc # "none"
                     THEN EndCall(n.exc) /\ UNCHANGED wd_node
                     ELSE /\ wd_node' = IF n.node # None THEN n.node ELSE wd_node
                          /\ pc' = "create_files"
                          /\ UNCHANGED <<raised, args, merged, c>>
       ELSE /\ pc' = "create_files"
            /\ UNCHANGED <<reqs, wd_node, raised, args, merged, c>>
    /\ UNCHANGED <<call, limits, given, environment, sandbox, engine, attrs, result>>
    /\ UNCHANGED <<wd, body_exc, wd_removals, wd_resp, wd_raised, comm_vars>>
    /\ UNCHANGED other_vars

\* _write_files(container, files) (sandboxes.py 273-302): the exception raised
WriteFiles(container, resp) ==
    IF container = "dict" THEN [exc |-> "AttributeError", sent |-> FALSE]
    ELSE IF resp = "ok" THEN [exc |-> "none", sent |-> TRUE]
    ELSE [exc |-> "DockerError", sent |-> TRUE]

\* create, lines 83-87: the file upload and the return of the Sandbox
CreateFiles ==
    /\ pc = "create_files"
    /\ \E resp \in Responses :
        LET w == IF args.files THEN WriteFiles(c, resp)
                 ELSE [exc |-> "none", sent |-> FALSE]
        IN /\ args.files = FALSE => resp = "ok"
           /\ reqs' = IF w.sent THEN Append(reqs, "put_archive") ELSE reqs
           /\ IF w.exc # "none"
              THEN EndCall(w.exc) /\ UNCHANGED sandbox
              ELSE /\ sandbox' = Some(NewSandbox(c, merged))
                   /\ pc' = IF call = "run" THEN "run_start" ELSE "idle"
                   /\ raised' = "none"
                   /\ args' = NoArgs /\ merged' = DEFAULT_LIMITS /\ c' = "none"
    /\ UNCHANGED <<call, limits, given, environment, engine, attrs, result, wd_vars, comm_vars>>
    /\ UNCHANGED other_vars

(***************************************************************************)
(* start (sandboxes.py 145-192).                                           *)
(***************************************************************************)
\* OSError and the subclasses of it that the attach socket raises
OSErrors == {"OSError", "ConnectionResetError", "BrokenPipeError", "TimeoutError"}

\* a start that went on with the result dict of the previous call
ResultOfLastStart ==
    IF result # None THEN The(result)
    ELSE [exit_code |-> None, stdout |-> <<>>, stderr |-> <<>>, duration |-> None,
          timeout |-> FALSE, oom_killed |-> FALSE]

\* start, lines 165-172
InitialResult ==
    [exit_code |-> None, stdout |-> <<>>, stderr |-> <<>>, duration |-> None,
     timeout |-> FALSE, oom_killed |-> FALSE]

\* start returns or raises: inside run the with statement is left through
\* Sandbox.__exit__, otherwise the caller has the outcome
EndStart(e) ==
    /\ pc' = IF call = "run" THEN "run_exit" ELSE "idle"
    /\ raised' = e

\* start, lines 158-175: called directly on the sandbox create returned, or
\* by run inside its with statement; it raises TypeError or enters
\* docker_communicate
BeginStart ==
    /\ \/ pc = "idle" /\ sandbox # None
          /\ Count("attach", reqs) < (IF wd = "open" THEN MaxStartsInWorkdir ELSE MaxStarts)
          /\ wd \in {"none", "open"}
          /\ call' = "start"
       \/ pc = "run_start" /\ UNCHANGED call
    /\ \E v \in StdinArgs :
        LET s == StartStdin(v)
        IN /\ stdin_arg' = v
           /\ IF s.exc # "none"
              THEN /\ EndStart(s.exc)
                   /\ result' = None
                   /\ stdin' = <<>> /\ timeout' = None /\ cpc' = "idle"
              ELSE /\ stdin' = StdinBytes(s.stdin)
                   /\ result' = Some(InitialResult)
                   /\ timeout' = The(sandbox).realtime_limit
                   /\ pc' = "communicate" /\ cpc' = "attach"
                   /\ raised' = "none"
    /\ comm_exc' = "none" /\ comm_out' = NoOut /\ broke' = "none"
    /\ stream_data' = <<>> /\ nreads' = 0 /\ elapsed' = 0 /\ wrote' = <<>>
    /\ read_ready' = FALSE /\ write_ready' = FALSE
    /\ sock' = "none" /\ wr_shutdowns' = 0
    /\ attrs' = None
    /\ UNCHANGED <<args, limits, given, environment, merged, c, sandbox, engine, reqs, wd_vars>>
    /\ UNCHANGED other_vars

\* docker_communicate is left: its locals are gone, its outcome and the
\* stream it read stay for start
CommLeave ==
    /\ timeout' = None /\ stdin' = <<>> /\ stdin_arg' = NoStdin /\ wrote' = <<>>
    /\ nreads' = 0 /\ elapsed' = 0
    /\ read_ready' = FALSE /\ write_ready' = FALSE
    /\ sock' = "none" /\ wr_shutdowns' = 0 /\ broke' = "none"
    /\ UNCHANGED <<cpc, comm_exc, comm_out, stream_data>>

\* a start that did not look at oom_killed
StartResultIgnoresOom(out, state) ==
    [exit_code |-> state.exit_code, stdout |-> out.stdout, stderr |-> out.stderr,
     duration |-> state.duration,
     timeout |-> is_killed_by_sigkill_or_sigxcpu(The(state.exit_code)),
     oom_killed |-> state.oom_killed]

\* the result start builds from the communicator's output and the inspected
\* state, lines 186-190
StartResult(out, state) ==
    [exit_code |-> state.exit_code, stdout |-> out.stdout, stderr |-> out.stderr,
     duration |-> state.duration,
     timeout |-> is_killed_by_sigkill_or_sigxcpu(The(state.exit_code))
                 /\ ~state.oom_killed,
     oom_killed |-> state.oom_killed]

\* a start that stopped the container when the deadline expired
StartExceptStops ==
    /\ pc = "communicate" /\ cpc = "raised"
    /\ IF comm_exc = "TimeoutError"
       THEN /\ result' = Some([The(result) EXCEPT !.timeout = TRUE])
            /\ reqs' = Append(reqs, "stop") /\ engine' = "exited"
            /\ EndStart("none")
       ELSE /\ EndStart(IF comm_exc \in {"RequestException", "DockerException"} \cup OSErrors
                        THEN "DockerError" ELSE comm_exc)
            /\ UNCHANGED <<result, reqs, engine>>
    /\ CommLeave
    /\ UNCHANGED <<call, args, limits, given, environment, merged, c, sandbox, attrs>>
    /\ UNCHANGED wd_vars
    /\ UNCHANGED other_vars

\* a start that returned the output read before the deadline
StartExceptKeepsOutput ==
    /\ pc = "communicate" /\ cpc = "raised"
    /\ IF comm_exc = "TimeoutError"
       THEN /\ result' = Some([The(result) EXCEPT
                                  !.timeout = TRUE,
                                  !.stdout = demultiplex_docker_stream(stream_data).stdout,
                                  !.stderr = demultiplex_docker_stream(stream_data).stderr])
            /\ EndStart("none")
       ELSE /\ EndStart(IF comm_exc \in {"RequestException", "DockerException"} \cup OSErrors
                        THEN "DockerError" ELSE comm_exc)
            /\ UNCHANGED result
    /\ CommLeave
    /\ UNCHANGED <<call, args, limits, given, environment, merged, c, sandbox, engine, reqs, attrs>>
    /\ UNCHANGED wd_vars
    /\ UNCHANGED other_vars

\* start, lines 176-182: docker_communicate raised
StartExcept ==
    /\ pc = "communicate" /\ cpc = "raised"
    /\ IF comm_exc = "TimeoutError"
       THEN /\ result' = Some([The(result) EXCEPT !.timeout = TRUE])
            /\ EndStart("none")
       ELSE /\ EndStart(IF comm_exc \in {"RequestException", "DockerException"} \cup OSErrors
                        THEN "DockerError" ELSE comm_exc)
            /\ UNCHANGED result
    /\ CommLeave
    /\ UNCHANGED <<call, args, limits, given, environment, merged, c, sandbox, engine, reqs, attrs>>
    /\ UNCHANGED wd_vars
    /\ UNCHANGED other_vars

\* start, lines 183-192, with inspect_exited_container_state (utils.py 63-80):
\* docker_communicate returned
StartElse ==
    /\ pc = "communicate" /\ cpc = "returned"
    /\ reqs' = Append(reqs, "inspect")
    /\ \/ \E a \in StateAttrs :
             /\ attrs' = Some(a)
             /\ result' = Some(StartResult(comm_out, ExitedState(a)))
             /\ EndStart("none")
       \/ /\ EndStart("DockerError")
          /\ UNCHANGED <<attrs, result>>
    /\ CommLeave
    /\ UNCHANGED <<call, args, limits, given, environment, merged, c, sandbox, engine>>
    /\ UNCHANGED wd_vars
    /\ UNCHANGED other_vars

(***************************************************************************)
(* destroy (sandboxes.py 195-209) and run (212-227).                       *)
(***************************************************************************)
\* destroy(sandbox): the exception it raises, whether the removal request
\* was issued, and whether the engine removed the container
Destroy(sb, resp) ==
    IF sb.container = "dict"
    THEN [exc |-> "AttributeError", sent |-> FALSE, removed |-> FALSE]
    ELSE [exc |-> "none", sent |-> TRUE, removed |-> resp = "ok"]

\* the caller calls destroy on the sandbox it holds
DestroyCall ==
    /\ pc = "idle" /\ sandbox # None
    /\ wd \in {"none", "open"}
    /\ \E resp \in RemoveResponses :
        LET d == Destroy(The(sandbox), resp)
        IN /\ reqs' = IF d.sent THEN Append(reqs, "remove") ELSE reqs
           /\ engine' = IF d.removed THEN "removed" ELSE engine
           /\ raised' = d.exc
    /\ call' = "destroy"
    /\ sandbox' = None /\ attrs' = None /\ result' = None
    /\ UNCHANGED <<pc, args, limits, given, environment, merged, c, wd_vars>>
    /\ CommForget
    /\ UNCHANGED other_vars

RunCall == EnterCreate("run")

\* run, lines 225-227: the with statement is left, Sandbox.__exit__ calls
\* destroy; an exception of destroy replaces the outcome of start
RunExit ==
    /\ pc = "run_exit"
    /\ \E resp \in RemoveResponses :
        LET d == Destroy(The(sandbox), resp)
        IN /\ reqs' = IF d.sent THEN Append(reqs, "remove") ELSE reqs
           /\ engine' = IF d.removed THEN "removed" ELSE engine
           /\ raised' = IF d.exc # "none" THEN d.exc ELSE raised
    /\ pc' = "idle"
    /\ sandbox' = None
    /\ UNCHANGED <<call, args, limits, given, environment, merged, c, attrs, result>>
    /\ UNCHANGED <<wd_vars, comm_vars>>
    /\ UNCHANGED other_vars

(***************************************************************************)
(* working_directory (sandboxes.py 247-270).                               *)
(***************************************************************************)
\* lines 249-258: the volume is created and the body of the with statement
\* is entered, or DockerError is raised
WdEnter ==
    /\ pc = "idle" /\ wd = "none" /\ call = "none"
    /\ \E resp \in Responses :
        IF resp = "ok"
        THEN wd' = "open" /\ wd_raised' = "none"
        ELSE wd' = "failed" /\ wd_raised' = "DockerError"
    /\ UNCHANGED <<wd_node, body_exc, wd_removals, wd_resp, life_vars, comm_vars>>
    /\ UNCHANGED other_vars

\* a cleanup that swallowed NotFound only
VolumeRemoveReraises(resp) ==
    IF resp \in {"APIError", "RequestException"} THEN "DockerError" ELSE "none"

\* lines 263-270: the exception volume.remove() leaves in the finally block,
\* given the engine's answer
VolumeRemove(resp) ==
    CASE resp = "ok" -> "none"
      [] resp = "NotFound" -> "none"
      [] resp \in {"APIError", "RequestException"} -> "none"

\* what leaves a try/finally: an exception of the finally block replaces the
\* outcome of the try block
Finally(try_exc, finally_exc) == IF finally_exc # "none" THEN finally_exc ELSE try_exc

\* a scope that removed the volume after the yield, without try/finally
CleanupOnSuccessOnly(e) == e = "none"

\* whether the generator's finally block runs for a body that ended with e
WdCleanupRuns(e) == TRUE

\* the with statement is left: what its body held is dropped
BodyForget ==
    /\ pc' = "idle" /\ call' = "none" /\ args' = NoArgs /\ limits' = None
    /\ given' = None /\ environment' = None
    /\ merged' = DEFAULT_LIMITS /\ c' = "none" /\ sandbox' = None
    /\ engine' = "absent" /\ reqs' = <<>> /\ attrs' = None /\ result' = None
    /\ raised' = "none"

\* lines 259-270: the body completes, raises its own exception or lets the
\* exception of its last API call through, and the scope is left
WdExit ==
    /\ pc = "idle" /\ wd = "open"
    /\ \E e \in {"none", "Exception", raised}, resp \in RemoveResponses :
        /\ body_exc' = e
        /\ IF WdCleanupRuns(e)
           THEN /\ wd_removals' = wd_removals + 1
                /\ wd_resp' = resp
                /\ wd_raised' = Finally(e, VolumeRemove(resp))
           ELSE /\ wd_raised' = e
                /\ UNCHANGED <<wd_removals, wd_resp>>
    /\ wd' = "closed"
    /\ BodyForget
    /\ CommForget
    /\ UNCHANGED wd_node
    /\ UNCHANGED other_vars

(***************************************************************************)
(* docker_communicate (utils.py 150-238).                                  *)
(***************************************************************************)
\* a frame of the engine's multiplexed stream: the selector, three zero
\* bytes, the 32-bit big-endian length of the payload, the payload
Frame(selector, payload) ==
    LET n == Len(payload)
    IN <<selector, 0, 0, 0, (n \div 16777216) % 256, (n \div 65536) % 256,
         (n \div 256) % 256, n % 256>> \o payload
\* what one os.read may return
PeerChunks == {Frame(1, <<111>>), Frame(2, <<101>>)}

CommRaise(e) == cpc' = "raised" /\ comm_exc' = e

\* an attach that left the write half open until the loop
ShutdownsAfterAttachNone(data) == 0

\* lines 188-191: the shutdown(SHUT_WR) calls made right after the attach
ShutdownsAfterAttach(data) == IF data = <<>> THEN 1 ELSE 0

\* lines 184-191: attach, and the shutdown of the write half when there is
\* nothing to send
CommAttach ==
    /\ pc = "communicate" /\ cpc = "attach"
    /\ IF The(sandbox).container = "dict"
       THEN /\ CommRaise("AttributeError")
            /\ UNCHANGED <<reqs, sock, wr_shutdowns>>
       ELSE /\ reqs' = Append(reqs, "attach")
            /\ \E resp \in Responses :
                IF resp = "ok"
                THEN /\ sock' = "open"
                     /\ wr_shutdowns' = ShutdownsAfterAttach(stdin)
                     /\ cpc' = "start" /\ UNCHANGED comm_exc
                ELSE /\ CommRaise("DockerException")
                     /\ UNCHANGED <<sock, wr_shutdowns>>
    /\ UNCHANGED <<pc, call, args, limits, given, environment, merged, c, sandbox, engine,
                   attrs, result, raised, wd_vars>>
    /\ UNCHANGED <<comm_out, broke, timeout, stdin, stdin_arg, wrote, stream_data, nreads, elapsed,
                   read_ready, write_ready>>
    /\ UNCHANGED other_vars

\* lines 192-197: the container is started and the clock is read
CommStart ==
    /\ pc = "communicate" /\ cpc = "start"
    /\ reqs' = Append(reqs, "start")
    /\ \E resp \in Responses :
        IF resp = "ok"
        THEN /\ engine' = "started"
             /\ cpc' = "loop" /\ UNCHANGED comm_exc
        ELSE /\ CommRaise("DockerException")
             /\ UNCHANGED engine
    /\ stream_data' = <<>> /\ elapsed' = 0
    /\ UNCHANGED <<pc, call, args, limits, given, environment, merged, c, sandbox,
                   attrs, result, raised, wd_vars>>
    /\ UNCHANGED <<comm_out, broke, timeout, stdin, stdin_arg, wrote, nreads,
                   read_ready, write_ready, sock, wr_shutdowns>>
    /\ UNCHANGED other_vars

\* a while condition that still holds when the clock shows the timeout
WithinDeadlineInclusive(t, e) == IF t = None THEN TRUE ELSE e <= Seconds(The(t))

\* the while condition, line 198
WithinDeadline(t, e) == IF t = None THEN TRUE ELSE e < Seconds(The(t))

\* a select called with a tick of two seconds
SelectWaitsLong == 0..(2 * SelectTimeout)

\* how long select may block, in ticks
SelectWaits == 0..SelectTimeout

\* the clock after d more ticks; it is read only when there is a deadline
Later(d) == IF timeout = None THEN elapsed ELSE elapsed + d

\* lines 198-200: the while condition holds and select returns, when the
\* socket is ready or after its timeout
CommSelect ==
    /\ pc = "communicate" /\ cpc = "loop"
    /\ WithinDeadline(timeout, elapsed)
    /\ \E rr \in BOOLEAN, wr \in BOOLEAN, d \in SelectWaits :
        /\ rr \/ wr \/ d >= SelectTimeout
        /\ read_ready' = rr /\ write_ready' = wr
        /\ elapsed' = Later(d)
    /\ cpc' = "pump"
    /\ UNCHANGED <<life_vars, wd_vars>>
    /\ UNCHANGED <<comm_exc, comm_out, broke, timeout, stdin, stdin_arg, wrote, stream_data, nreads,
                   sock, wr_shutdowns>>
    /\ UNCHANGED other_vars

\* lines 198 and 234-236: the while condition fails, the socket is closed and
\* TimeoutError raised
CommTimeout ==
    /\ pc = "communicate" /\ cpc = "loop"
    /\ ~WithinDeadline(timeout, elapsed)
    /\ sock' = "closed"
    /\ CommRaise("TimeoutError")
    /\ UNCHANGED <<life_vars, wd_vars>>
    /\ UNCHANGED <<comm_out, broke, timeout, stdin, stdin_arg, wrote, stream_data, nreads, elapsed,
                   read_ready, write_ready, wr_shutdowns>>
    /\ UNCHANGED other_vars

\* what _socket_read (utils.py 120-133) meets: a chunk of data, an errno of
\* ERRNO_RECOVERABLE, the end of the stream, or an OSError it raises again:
\* a connection reset, errno ETIMEDOUT (for which os.read raises the
\* subclass TimeoutError) or an OSError of no subclass handled anywhere
ReadOutcomes ==
    {"data", "recoverable", "eof", "ConnectionResetError", "TimeoutError", "OSError"}

\* lines 201-212 for the outcome o of the read: whether the read was
\* attempted, the data appended to stream_data, and how the iteration goes
\* on ("go"), raises ("raise") or breaks (ctl names the cause)
ReadStep(ready, o, chunk) ==
    IF ~ready THEN [active |-> FALSE, data |-> <<>>, ctl |-> "go"]
    ELSE CASE o = "data" -> [active |-> TRUE, data |-> chunk, ctl |-> "go"]
           [] o = "recoverable" -> [active |-> TRUE, data |-> <<>>, ctl |-> "go"]
           [] o \in {"eof", "ConnectionResetError"} ->
                [active |-> TRUE, data |-> <<>>, ctl |-> o]
           [] OTHER -> [active |-> TRUE, data |-> <<>>, ctl |-> "raise"]

\* what _socket_write (utils.py 136-147) meets: some bytes written, an errno
\* of ERRNO_RECOVERABLE (0 bytes written), or an OSError it raises again: a
\* broken pipe, a connection reset, errno ETIMEDOUT (TimeoutError) or an
\* OSError of no subclass handled anywhere
WriteOutcomes ==
    {"written", "recoverable", "BrokenPipeError", "ConnectionResetError", "TimeoutError",
     "OSError"}

\* a loop that took every write for a complete one
WriteStepAll(ready, data, o, n) ==
    IF ~(ready /\ data # <<>>)
    THEN [active |-> FALSE, rest |-> data, put |-> <<>>, shut |-> FALSE, ctl |-> "go"]
    ELSE CASE o \in {"written", "recoverable"} ->
                LET written == IF o = "written" THEN n ELSE 0
                IN [active |-> TRUE, rest |-> <<>>, put |-> Slice(data, 0, written),
                    shut |-> TRUE, ctl |-> "go"]
           [] o = "BrokenPipeError" ->
                [active |-> TRUE, rest |-> data, put |-> <<>>, shut |-> FALSE, ctl |-> o]
           [] OTHER ->
                [active |-> TRUE, rest |-> data, put |-> <<>>, shut |-> FALSE,
                 ctl |-> "raise"]

\* lines 214-229 for the outcome o of a write of n bytes: the bytes left to
\* send, the bytes the socket took, whether the write half is shut down, and
\* how the iteration goes on
WriteStep(ready, data, o, n) ==
    IF ~(ready /\ data # <<>>)
    THEN [active |-> FALSE, rest |-> data, put |-> <<>>, shut |-> FALSE, ctl |-> "go"]
    ELSE CASE o \in {"written", "recoverable"} ->
                LET written == IF o = "written" THEN n ELSE 0
                    rest == Slice(data, written, Len(data))
                IN [active |-> TRUE, rest |-> rest, put |-> Slice(data, 0, written),
                    shut |-> rest = <<>>, ctl |-> "go"]
           [] o = "BrokenPipeError" ->
                [active |-> TRUE, rest |-> data, put |-> <<>>, shut |-> FALSE, ctl |-> o]
           [] OTHER ->
                [active |-> TRUE, rest |-> data, put |-> <<>>, shut |-> FALSE,
                 ctl |-> "raise"]

\* a loop whose else clause ran after a break too
BreakExitChecksDeadline(t, e) == IF WithinDeadline(t, e) THEN "none" ELSE "TimeoutError"

\* lines 234-238: the exception raised after a break; the else clause of
\* the while statement is skipped
BreakExit(t, e) == "none"

\* lines 201-233 and 237-238: the body of the loop after select.  A break
\* closes the socket and returns the demultiplexed stream; an OSError that is
\* not caught leaves the function as it was raised; otherwise the loop sleeps if it was idle
\* and goes back to the while condition.  The socket's answer to a read or
\* a write that is not attempted is not drawn.
CommPump ==
    /\ pc = "communicate" /\ cpc = "pump"
    /\ \E ro \in ReadOutcomes, chunk \in PeerChunks, wo \in WriteOutcomes,
          n \in 1..(IF stdin = <<>> THEN 1 ELSE Len(stdin)) :
        LET r == ReadStep(read_ready, ro, chunk)
            w == IF r.ctl = "go" THEN WriteStep(write_ready, stdin, wo, n)
                 ELSE [active |-> FALSE, rest |-> stdin, put |-> <<>>, shut |-> FALSE,
                       ctl |-> r.ctl]
            active == r.active \/ w.active
            writes == r.ctl = "go" /\ write_ready /\ stdin # <<>>
        IN /\ ~read_ready => ro = "data"
           /\ ~(read_ready /\ ro = "data") => chunk = Frame(1, <<111>>)
           /\ ~writes => wo = "written"
           /\ ~(writes /\ wo = "written") => n = 1
           /\ r.data # <<>> => nreads < MaxReads
           /\ stream_data' = stream_data \o r.data
           /\ nreads' = IF r.data # <<>> THEN nreads + 1 ELSE nreads
           /\ stdin' = w.rest
           /\ wrote' = wrote \o w.put
           /\ wr_shutdowns' = IF w.shut THEN wr_shutdowns + 1 ELSE wr_shutdowns
           /\ CASE w.ctl = "go" ->
                    /\ elapsed' = IF active THEN elapsed ELSE Later(IdleSleep)
                    /\ cpc' = "loop"
                    /\ UNCHANGED <<comm_exc, comm_out, sock>>
                    /\ UNCHANGED broke
                [] w.ctl = "raise" ->
                    /\ CommRaise(IF r.ctl = "raise" THEN ro ELSE wo)
                    /\ UNCHANGED <<comm_out, broke, sock, elapsed>>
                [] OTHER ->
                    /\ sock' = "closed" /\ broke' = w.ctl
                    /\ IF BreakExit(timeout, elapsed) = "none"
                       THEN /\ comm_out' = demultiplex_docker_stream(stream_data')
                            /\ cpc' = "returned"
                            /\ UNCHANGED comm_exc
                       ELSE /\ CommRaise(BreakExit(timeout, elapsed))
                            /\ UNCHANGED comm_out
                    /\ UNCHANGED elapsed
    /\ read_ready' = FALSE /\ write_ready' = FALSE
    /\ UNCHANGED <<life_vars, wd_vars, timeout, stdin_arg>>
    /\ UNCHANGED other_vars

(***************************************************************************)
(* docker_communicate as one step of start.                                *)
(***************************************************************************)
\* the streams a loop may have accumulated: up to n chunks
RECURSIVE StreamsOf(_)
StreamsOf(n) ==
    IF n = 0 THEN {<<>>}
    ELSE StreamsOf(n - 1) \cup {st \o ch : st \in StreamsOf(n - 1), ch \in PeerChunks}

\* a communicator that started the container before attaching to it
CommOutcomeStartFirst(exc, why, sent, started, stream) ==
    [exc |-> exc, broke |-> why,
     sent |-> [i \in 1..Len(sent) |-> sent[Len(sent) + 1 - i]],
     started |-> started, stream |-> stream]

CommOutcome(exc, why, sent, started, stream) ==
    [exc |-> exc, broke |-> why, sent |-> sent, started |-> started, stream |-> stream]

\* docker_communicate(container, stdin, timeout) (utils.py 150-238) from
\* call to exit, for start: the exception raised ("none": it returns), the
\* cause of the break, the requests issued, whether the container was
\* started, and the stream read.  The steps are those of CommAttach,
\* CommStart, CommSelect, CommPump and CommTimeout above.
docker_communicate(container, data, t) ==
    IF container = "dict"
    THEN {CommOutcome("AttributeError", "none", <<>>, FALSE, <<>>)}
    ELSE {CommOutcome("DockerException", "none", <<"attach">>, FALSE, <<>>),
          CommOutcome("DockerException", "none", <<"attach", "start">>, FALSE, <<>>)}
         \cup {CommOutcome("none", why, <<"attach", "start">>, TRUE, st) :
                 why \in {"eof", "ConnectionResetError"}
                         \cup (IF data # <<>> THEN {"BrokenPipeError"} ELSE {}),
                 st \in StreamsOf(MaxReads)}
         \cup {CommOutcome(e, "none", <<"attach", "start">>, TRUE, st) :
                 e \in {"OSError", "TimeoutError"}
                       \cup (IF data # <<>> THEN {"ConnectionResetError"} ELSE {}),
                 st \in StreamsOf(MaxReads)}

\* start, lines 174-175: the call of docker_communicate, from attach to exit
Communicate ==
    /\ pc = "communicate" /\ cpc = "attach"
    /\ \E o \in docker_communicate(The(sandbox).container, stdin, timeout) :
        /\ reqs' = reqs \o o.sent
        /\ engine' = IF o.started THEN "started" ELSE engine
        /\ stream_data' = o.stream
        /\ broke' = o.broke
        /\ IF o.exc = "none"
           THEN /\ cpc' = "returned"
                /\ comm_out' = demultiplex_docker_stream(o.stream)
                /\ UNCHANGED comm_exc
           ELSE /\ CommRaise(o.exc)
                /\ UNCHANGED comm_out
    /\ UNCHANGED <<pc, call, args, limits, given, environment, merged, c, sandbox,
                   attrs, result, raised, wd_vars>>
    /\ UNCHANGED <<timeout, stdin, stdin_arg, wrote, nreads, elapsed, read_ready, write_ready,
                   sock, wr_shutdowns>>
    /\ UNCHANGED other_vars

(***************************************************************************)
(* merge_limits_defaults (utils.py 245-254) on its own.                    *)
(***************************************************************************)
\* the limits a caller may pass: None, or a dict giving None or a number to
\* any of these keys
MergeKeys == {"cputime", "realtime", "memory"}
LimitValues == {None} \cup {Some(n) : n \in 1..MaxLimit}
MergeInputs == {None} \cup {Some(d) : d \in UNION {[D -> LimitValues] : D \in SUBSET MergeKeys}}

\* merge_limits_defaults is about to be called on the caller's limits
MergeInit ==
    /\ OtherIdle
    /\ pc = "merge" /\ call = "none" /\ args = NoArgs
    /\ given \in MergeInputs /\ limits = given /\ environment = None
    /\ merged = DEFAULT_LIMITS /\ c = "none" /\ sandbox = None
    /\ engine = "absent" /\ reqs = <<>> /\ attrs = None /\ result = None
    /\ raised = "none"
    /\ wd = "none" /\ wd_node = None /\ body_exc = "none" /\ wd_removals = 0
    /\ wd_resp = "none" /\ wd_raised = "none"
    /\ CommIdle

\* limits = utils.merge_limits_defaults(limits), sandboxes.py line 69
MergeCall ==
    /\ pc = "merge"
    /\ LET m == merge_limits_defaults(limits)
       IN /\ raised' = m.exc
          /\ limits' = m.caller
          /\ merged' = IF m.exc = "none" THEN m.merged ELSE merged
    /\ pc' = "merged"
    /\ UNCHANGED <<call, args, given, environment, c, sandbox, engine, reqs,
                   attrs, result, wd_vars, comm_vars>>
    /\ UNCHANGED other_vars

(***************************************************************************)
(* demultiplex_docker_stream (utils.py 83-117) on the stream of any frames. *)
(***************************************************************************)
\* the state of the functions a specification does not exercise
Unused ==
    /\ call = "none" /\ args = NoArgs
    /\ limits = None /\ given = None /\ environment = None
    /\ merged = DEFAULT_LIMITS /\ c = "none" /\ sandbox = None
    /\ engine = "absent" /\ reqs = <<>> /\ attrs = None /\ result = None
    /\ raised = "none"
    /\ wd = "none" /\ wd_node = None /\ body_exc = "none" /\ wd_removals = 0
    /\ wd_resp = "none" /\ wd_raised = "none"
    /\ CommIdle

\* selectors of stdin, stdout and stderr
Selectors == {0, 1, 2}
\* payload bytes: one that reads like a selector, and 'o'
PayloadBytes == {1, 111}
Payloads == UNION {[1..n -> PayloadBytes] : n \in 0..MaxPayload}
FrameSeqs == UNION {[1..n -> Selectors \X Payloads] : n \in 0..MaxFrames}

\* the engine's encoding of the frames fs, one after the other
RECURSIVE Multiplex(_)
Multiplex(fs) ==
    IF fs = <<>> THEN <<>>
    ELSE Frame(Head(fs)[1], Head(fs)[2]) \o Multiplex(Tail(fs))

\* the payloads of the frames of fs with the given selector, in order
RECURSIVE PayloadsOf(_, _)
PayloadsOf(fs, selector) ==
    IF fs = <<>> THEN <<>>
    ELSE (IF Head(fs)[1] = selector THEN Head(fs)[2] ELSE <<>>)
         \o PayloadsOf(Tail(fs), selector)

DemuxInit ==
    /\ frames \in FrameSeqs /\ files = <<>> /\ tarball = <<>>
    /\ ConfigIdle /\ ClientIdle
    /\ pc = "demux"
    /\ Unused

\* demultiplex_docker_stream(stream_data) on the bytes of the frames
DemuxCall ==
    /\ pc = "demux"
    /\ stream_data' = Multiplex(frames)
    /\ comm_out' = demultiplex_docker_stream(Multiplex(frames))
    /\ pc' = "demuxed"
    /\ UNCHANGED <<call, args, limits, given, environment, merged, c, sandbox, engine,
                   reqs, attrs, result, raised, wd_vars>>
    /\ UNCHANGED <<cpc, comm_exc, broke, timeout, stdin, stdin_arg, wrote, nreads,
                   elapsed, read_ready, write_ready, sock, wr_shutdowns>>
    /\ UNCHANGED <<frames, files, tarball, config_vars, client_vars>>

(***************************************************************************)
(* demultiplex_docker_stream (utils.py 83-117) on a stream that was cut.   *)
(***************************************************************************)
\* selectors of stdin, stdout and stderr, and one that names no stream
StreamSelectors == {0, 1, 2, 3}
\* payloads of 'o' bytes, one byte longer than those of whole frames so
\* that a payload can be cut in the middle
StreamPayloads == {[i \in 1..n |-> 111] : n \in 0..(MaxPayload + 1)}
StreamFrameSeqs == UNION {[1..n -> StreamSelectors \X StreamPayloads] : n \in 0..MaxFrames}

\* data without its last cut bytes, for every cut up to k
CutEnds(data, k) == {SubSeq(data, 1, Len(data) - cut) : cut \in 0..Min(k, Len(data))}

\* the engine multiplexed the frames and the stream ended anywhere in the
\* last frame or right before it
StreamInit ==
    /\ frames \in StreamFrameSeqs /\ files = <<>> /\ tarball = <<>>
    /\ ConfigIdle /\ ClientIdle
    /\ pc = "stream"
    /\ call = "none" /\ args = NoArgs
    /\ limits = None /\ given = None /\ environment = None
    /\ merged = DEFAULT_LIMITS /\ c = "none" /\ sandbox = None
    /\ engine = "absent" /\ reqs = <<>> /\ attrs = None /\ result = None
    /\ raised = "none"
    /\ wd = "none" /\ wd_node = None /\ body_exc = "none" /\ wd_removals = 0
    /\ wd_resp = "none" /\ wd_raised = "none"
    /\ cpc = "idle" /\ comm_exc = "none" /\ comm_out = NoOut /\ broke = "none"
    /\ timeout = None
    /\ stdin = <<>> /\ stdin_arg = NoStdin /\ wrote = <<>>
    /\ stream_data \in CutEnds(Multiplex(frames), STREAM_HEADER_SIZE_BYTES + MaxPayload + 1)
    /\ nreads = 0 /\ elapsed = 0
    /\ read_ready = FALSE /\ write_ready = FALSE
    /\ sock = "none" /\ wr_shutdowns = 0

\* demultiplex_docker_stream(stream_data) on the bytes that arrived
StreamCall ==
    /\ pc = "stream"
    /\ comm_out' = demultiplex_docker_stream(stream_data)
    /\ pc' = "streamed"
    /\ UNCHANGED <<call, args, limits, given, environment, merged, c, sandbox, engine,
                   reqs, attrs, result, raised, wd_vars>>
    /\ UNCHANGED <<cpc, comm_exc, broke, timeout, stdin, stdin_arg, wrote, stream_data, nreads,
                   elapsed, read_ready, write_ready, sock, wr_shutdowns>>
    /\ UNCHANGED other_vars

(***************************************************************************)
(* _write_files (sandboxes.py 273-302) on any list of files.               *)
(***************************************************************************)
\* a file dict: its 'name' and 'content' keys, None when the key is absent
FileNames ==
    {None, Some(PyValue("NoneType", <<>>)), Some(PyValue("int", <<1>>)),
     Some(PyValue("str", <<>>)), Some(PyValue("str", <<97>>)),
     Some(PyValue("str", <<98>>))}
FileContents == {None, Some(<<>>), Some(<<120>>)}
FileArgs == [name : FileNames, content : FileContents]
FileLists == UNION {[1..n -> FileArgs] : n \in 0..MaxFiles}

\* line 286: not file.get('name') or not isinstance(file['name'], str)
SkipsFile(file) ==
    IF file.name = None THEN TRUE
    ELSE ~Truthy(The(file.name)) \/ The(file.name).type # "str"

\* lines 288-292: the member added for a file, with the size bytes that
\* addfile copies from the file object
TarMember(file) ==
    LET content == IF file.content = None THEN <<>> ELSE The(file.content)
    IN [name |-> The(file.name).val, size |-> Len(content),
        data |-> Slice(content, 0, Len(content))]

\* a loop that put every later member in front of the earlier ones
RECURSIVE TarMembersLastFirst(_)
TarMembersLastFirst(fs) ==
    IF fs = <<>> THEN <<>>
    ELSE TarMembersLastFirst(Tail(fs))
         \o (IF SkipsFile(Head(fs)) THEN <<>> ELSE <<TarMember(Head(fs))>>)

\* lines 284-293: the members of the tarball
RECURSIVE TarMembers(_)
TarMembers(fs) ==
    IF fs = <<>> THEN <<>>
    ELSE (IF SkipsFile(Head(fs)) THEN <<>> ELSE <<TarMember(Head(fs))>>)
         \o TarMembers(Tail(fs))

WriteFilesInit ==
    /\ files \in FileLists /\ tarball = <<>> /\ frames = <<>>
    /\ ConfigIdle /\ ClientIdle
    /\ pc = "write_files"
    /\ Unused

\* _write_files(container, files) on a container that create obtained
WriteFilesCall ==
    /\ pc = "write_files"
    /\ tarball' = TarMembers(files)
    /\ \E resp \in Responses :
        LET w == WriteFiles("Container", resp)
        IN /\ raised' = w.exc
           /\ reqs' = IF w.sent THEN Append(reqs, "put_archive") ELSE reqs
    /\ pc' = "written"
    /\ UNCHANGED <<call, args, limits, given, environment, merged, c, sandbox, engine,
                   attrs, result, wd_vars, comm_vars>>
    /\ UNCHANGED <<frames, files, config_vars, client_vars>>

(***************************************************************************)
(* configure (config.py 48-58) and the profile lookup of create.           *)
(***************************************************************************)
ProfileNames == {"python", "gcc"}
\* the keyword arguments of a profile: user left out, or given
ProfileKwargs == [user : {None, Some("nobody")}]
\* the dicts passed as profiles
ProfileMaps == UNION {[D -> ProfileKwargs] : D \in SUBSET ProfileNames}

\* the module is imported: PROFILES = {} and DOCKER_URL = None (config.py
\* 11-12)
ConfigInit ==
    /\ PROFILES = <<>> /\ DOCKER_URL = None /\ configured = <<>> /\ lookup = NoLookup
    /\ PureIdle /\ ClientIdle
    /\ pc = "idle"
    /\ Unused

ConfigureCall ==
    /\ pc = "idle" /\ Len(configured) < MaxConfigures
    /\ \E profiles \in ProfileMaps :
        /\ PROFILES' = configure(PROFILES, profiles)
        /\ configured' = Append(configured, profiles)
    /\ DOCKER_URL' = None
    /\ lookup' = NoLookup
    /\ UNCHANGED <<life_vars, wd_vars, comm_vars, pure_vars, client_vars>>

\* create, lines 60-61, 66 and 72: the profile found under the name p and
\* the user handed to _create_sandbox_container
LookupProfile ==
    /\ pc = "idle"
    /\ \E p \in ProfileNames :
        lookup' = IF CreateChecks(p, "None") # "none"
                  THEN [name |-> p, exc |-> CreateChecks(p, "None"), user |-> None]
                  ELSE [name |-> p, exc |-> "none", user |-> Some(PROFILES[p].user)]
    /\ UNCHANGED <<life_vars, wd_vars, comm_vars, pure_vars, PROFILES, DOCKER_URL, configured>>
    /\ UNCHANGED client_vars

(***************************************************************************)
(* get_docker_client (utils.py 29-45) called by several threads.  A thread *)
(* may be preempted between any two statements.                            *)
(***************************************************************************)
\* (retry_read, retry_status_forcelist) of the call sites: the defaults, and
\* the status list (404, 500) of _write_files and docker_communicate
ClientKeys == {"5,(500,)", "5,(404,500)"}
\* engine URLs: a local socket and a remote engine
Urls == {"unix://docker.sock", "tcp://node:2375"}
\* the base_url argument (None when left out) and the docker_url argument
\* of configure
UrlArgs == {None} \cup {Some(u) : u \in Urls}
\* a or b of Python on two values that are None or a non-empty string
Or(a, b) == IF a # None THEN a ELSE b

\* configure(docker_url=u) (config.py 48-58) between two calls of
\* get_docker_client: no profile is added, DOCKER_URL is set
ConfigureUrl ==
    /\ pc = "idle" /\ Len(configured) < MaxConfigures
    /\ \A t \in Threads : threads[t].pc \in {"out", "done"}
    /\ \E u \in UrlArgs :
        /\ u # DOCKER_URL
        /\ DOCKER_URL' = u
    /\ PROFILES' = configure(PROFILES, <<>>)
    /\ configured' = Append(configured, <<>>)
    /\ lookup' = NoLookup
    /\ UNCHANGED <<life_vars, wd_vars, comm_vars, pure_vars, client_vars>>

ClientInit ==
    /\ ClientIdle /\ PureIdle /\ ConfigIdle
    /\ pc = "idle"
    /\ Unused

\* line 31: the call, and the key built from its arguments
ClientCall(t) ==
    /\ threads[t].pc = "out"
    /\ \E k \in ClientKeys, u \in UrlArgs :
        threads' = [threads EXCEPT ![t] = [pc |-> "check", base_url |-> u, key |-> k,
                                           client |-> 0, ret |-> 0]]
    /\ UNCHANGED <<DOCKER_CLIENTS, built, bound>>
    /\ UNCHANGED <<life_vars, wd_vars, comm_vars, pure_vars, config_vars>>

\* line 32: if client_key not in _DOCKER_CLIENTS
ClientCheck(t) ==
    /\ threads[t].pc = "check"
    /\ threads' = [threads EXCEPT ![t].pc =
                      IF threads[t].key \notin DOMAIN DOCKER_CLIENTS
                      THEN "construct" ELSE "return"]
    /\ UNCHANGED <<DOCKER_CLIENTS, built, bound>>
    /\ UNCHANGED <<life_vars, wd_vars, comm_vars, pure_vars, config_vars>>

\* lines 33-43: a new DockerClient for base_url or config.DOCKER_URL, with
\* its adapter, named by its number
ClientConstruct(t) ==
    /\ threads[t].pc = "construct"
    /\ built' = Append(built, threads[t].key)
    /\ bound' = Append(bound, Or(threads[t].base_url, DOCKER_URL))
    /\ threads' = [threads EXCEPT ![t].pc = "store", ![t].client = Len(built) + 1]
    /\ UNCHANGED DOCKER_CLIENTS
    /\ UNCHANGED <<life_vars, wd_vars, comm_vars, pure_vars, config_vars>>

\* line 44: _DOCKER_CLIENTS[client_key] = client
ClientStore(t) ==
    /\ threads[t].pc = "store"
    /\ DOCKER_CLIENTS' = DictUpdate(DOCKER_CLIENTS,
                                    [k \in {threads[t].key} |-> threads[t].client])
    /\ threads' = [threads EXCEPT ![t].pc = "return"]
    /\ UNCHANGED <<built, bound>>
    /\ UNCHANGED <<life_vars, wd_vars, comm_vars, pure_vars, config_vars>>

\* line 45: return _DOCKER_CLIENTS[client_key]
ClientReturn(t) ==
    /\ threads[t].pc = "return"
    /\ threads' = [threads EXCEPT ![t].pc = "done",
                                  ![t].ret = DOCKER_CLIENTS[threads[t].key]]
    /\ UNCHANGED <<DOCKER_CLIENTS, built, bound>>
    /\ UNCHANGED <<life_vars, wd_vars, comm_vars, pure_vars, config_vars>>

ClientNext ==
    \/ \E t \in Threads : ClientCall(t)
    \/ \E t \in Threads : ClientCheck(t)
    \/ \E t \in Threads : ClientConstruct(t)
    \/ \E t \in Threads : ClientStore(t)
    \/ \E t \in Threads : ClientReturn(t)

(***************************************************************************)
(* The specifications.                                                     *)
(***************************************************************************)
CommNext ==
    \/ CommAttach \/ CommStart \/ CommSelect \/ CommTimeout \/ CommPump

Next ==
    \/ CreateCall \/ RunCall \/ BeginCreate \/ CreateNode \/ CreateFiles
    \/ BeginStart \/ Communicate \/ StartExcept \/ StartElse
    \/ DestroyCall \/ RunExit
    \/ WdEnter \/ WdExit

\* the caller's session against the engine; docker_communicate is one step
Spec == Init /\ [][Next]_vars

\* docker_communicate entered by start on a sandbox that create returned
CommInit ==
    /\ OtherIdle
    /\ pc = "communicate" /\ call = "start" /\ args = NoArgs
    /\ limits = None /\ given = None /\ environment = None
    /\ merged = DEFAULT_LIMITS /\ c = "none"
    /\ \E k \in {"Container", "dict"}, t \in {None} \cup {Some(r) : r \in 1..MaxRealtime} :
          /\ sandbox = Some([container |-> k, realtime_limit |-> t])
          /\ timeout = t
    /\ engine = "created" /\ reqs = <<"create">> /\ attrs = None
    /\ result = Some(InitialResult) /\ raised = "none"
    /\ wd = "none" /\ wd_node = None /\ body_exc = "none" /\ wd_removals = 0
    /\ wd_resp = "none" /\ wd_raised = "none"
    /\ cpc = "attach" /\ comm_exc = "none" /\ comm_out = NoOut /\ broke = "none"
    /\ stdin_arg \in StdinArgs /\ StartStdin(stdin_arg).exc = "none"
    /\ stdin = StdinBytes(StartStdin(stdin_arg).stdin) /\ wrote = <<>>
    /\ stream_data = <<>> /\ nreads = 0 /\ elapsed = 0
    /\ read_ready = FALSE /\ write_ready = FALSE
    /\ sock = "none" /\ wr_shutdowns = 0

\* every iteration of the loop takes time: one whose select returns at once
\* and finds the socket active lasts less than a tick, and only finitely
\* many of them fit before the clock shows the next tick
CommSelectTick ==
    /\ CommSelect
    /\ elapsed' > elapsed

\* merge_limits_defaults applied to every limits value of MergeInputs
SpecMerge == MergeInit /\ [][MergeCall]_vars

\* demultiplex_docker_stream applied to the encoding of every frame sequence
SpecDemux == DemuxInit /\ [][DemuxCall]_vars

\* demultiplex_docker_stream applied to every stream of frames that ends
\* within its last frame
SpecStream == StreamInit /\ [][StreamCall]_vars

\* MaxThreads threads in get_docker_client, interleaved in every way, and
\* configure called between their calls
SpecClient == ClientInit /\ [][ClientNext \/ ConfigureUrl]_vars

\* configure called up to MaxConfigures times, and lookups in between
SpecConfig == ConfigInit /\ [][ConfigureCall \/ LookupProfile]_vars

\* _write_files applied to every list of files
SpecTar == WriteFilesInit /\ [][WriteFilesCall]_vars

\* docker_communicate step by step, against every behaviour of the peer
SpecComm == CommInit /\ [][CommNext]_vars /\ WF_vars(CommNext) /\ SF_vars(CommSelectTick)

(***************************************************************************)
(* The summary of docker_communicate covers its steps.                     *)
(***************************************************************************)
CommDone == cpc \in {"returned", "raised"}

\* every exit of the step-by-step docker_communicate is an outcome of the
\* operator docker_communicate (a broken pipe leaves stdin unsent, so the
\* bytes left tell that there was data to send)
CommSummarySound ==
    CommDone =>
        CommOutcome(comm_exc, broke, SubSeq(reqs, 2, Len(reqs)), engine = "started",
                    stream_data)
            \in docker_communicate(The(sandbox).container, stdin, timeout)

(***************************************************************************)
(* Properties.                                                             *)
(***************************************************************************)
\* start has ended: its caller has the outcome, or run is about to leave its
\* with statement
StartEnded == (pc = "idle" /\ call = "start") \/ pc = "run_exit"
\* start has returned a result
StartReturned == StartEnded /\ raised = "none" /\ result # None
\* the communicator raised TimeoutError
DeadlineExpired == cpc = "raised" /\ comm_exc = "TimeoutError"

\* C1: after start returns a result, result.timeout is true if and only if
\* the communicator raised TimeoutError, or the inspected ExitCode minus 128
\* is 9 or 24 while OOMKilled is false.
C1_TimeoutIff ==
    StartReturned =>
        (The(result).timeout <=>
            IF DeadlineExpired THEN TRUE
            ELSE IF attrs = None THEN FALSE
            ELSE (The(attrs).ExitCode - 128) \in {9, 24} /\ ~The(attrs).OOMKilled)

C1_Witness ==
    /\ StartReturned /\ ~DeadlineExpired /\ attrs # None
    /\ The(attrs).ExitCode = 152 /\ ~The(attrs).OOMKilled
    /\ The(result).timeout

\* C2: every result start returns with oom_killed true has timeout false,
\* whatever the exit code (137 and 152 included) and whatever the
\* communicator's outcome.
C2_OomNotTimeout ==
    StartReturned =>
        /\ The(result).oom_killed => ~The(result).timeout
        /\ The(result).oom_killed <=>
              IF attrs = None THEN FALSE ELSE The(attrs).OOMKilled

C2_Witness ==
    /\ StartReturned /\ The(result).oom_killed
    /\ The(result).exit_code = Some(137) /\ ~The(result).timeout
    /\ broke = "none" /\ stream_data # <<>>

\* C3: in every result start returns, exit_code is None if and only if the
\* communicator raised TimeoutError; on every other returning path it is the
\* integer ExitCode read by the inspection.
C3_ExitCode ==
    StartReturned =>
        /\ The(result).exit_code = None <=> DeadlineExpired
        /\ ~DeadlineExpired =>
              IF attrs = None THEN FALSE
              ELSE The(result).exit_code = Some(The(attrs).ExitCode)

C3_Witness ==
    /\ StartReturned /\ DeadlineExpired /\ The(result).exit_code = None
    /\ attrs = None /\ pc = "idle"

\* C4: for every start that returns without a wall-clock timeout, duration is
\* FinishedAt - StartedAt when that is not negative and exactly -1 when it
\* is; no exception is raised for the anomaly.
C4_Duration ==
    (StartEnded /\ cpc = "returned" /\ attrs # None) =>
        /\ raised = "none" /\ result # None
        /\ LET d == The(attrs).FinishedAt - The(attrs).StartedAt
           IN The(result).duration = Some(IF d >= 0 THEN d ELSE -1)

C4_Witness ==
    /\ StartReturned /\ attrs # None
    /\ The(attrs).FinishedAt < The(attrs).StartedAt
    /\ The(result).duration = Some(-1)

\* C5: when the deadline expires, start returns a result with timeout true
\* and raises nothing, and no kill, stop or remove request is issued: the
\* container stays started until destroy.
C5_TimeoutLeavesContainer ==
    (StartEnded /\ DeadlineExpired) =>
        /\ raised = "none" /\ result # None /\ The(result).timeout
        /\ \A i \in 1..Len(reqs) : reqs[i] \notin {"kill", "stop", "remove"}
        /\ engine = "started"

C5_Witness ==
    /\ StartEnded /\ DeadlineExpired /\ pc = "run_exit"
    /\ The(result).timeout /\ engine = "started"
    /\ reqs = <<"create", "attach", "start">>

\* C6: with a timeout T that is not None, docker_communicate terminates
\* whatever the peer does: the clock never shows more than T plus one
\* iteration (select's second and the idle sleep) while it runs, and it
\* returns or raises.
C6_Terminates ==
    /\ [](IF timeout = None THEN TRUE
          ELSE elapsed <= Seconds(The(timeout)) + SelectTimeout + IdleSleep)
    /\ <>(IF timeout = None THEN TRUE ELSE CommDone)

\* the peer wrote nothing, never read stdin and never closed the stream
C6_Witness ==
    /\ DeadlineExpired /\ timeout # None
    /\ stream_data = <<>> /\ stdin # <<>> /\ wr_shutdowns = 0
    /\ elapsed = Seconds(The(timeout)) + SelectTimeout

\* C7: for every run in which the engine container was created, exactly one
\* removal request for it is issued before run returns or raises.
C7_RunRemovesOnce ==
    (call = "run" /\ pc = "idle" /\ engine # "absent") => Count("remove", reqs) = 1

\* C8: for every working_directory scope whose volume was created, exactly
\* one volume removal is attempted, at the exit of the scope, whether the
\* body completes or raises; an exception of the body still propagates.
C8_VolumeRemovedOnce ==
    /\ wd \in {"open", "failed"} => wd_removals = 0
    /\ wd = "closed" =>
          /\ wd_removals = 1
          /\ body_exc # "none" => wd_raised = body_exc

C8_Witness ==
    /\ wd = "closed" /\ body_exc = "DockerError"
    /\ wd_removals = 1 /\ wd_resp = "ok" /\ wd_raised = "DockerError"

\* C9: a failure of the volume removal at scope exit is never raised and
\* never replaces the outcome of the body.
C9_RemovalFailureSwallowed ==
    (wd = "closed" /\ wd_resp # "ok") => wd_raised = body_exc

C9_Witness ==
    /\ wd = "closed" /\ wd_resp = "APIError"
    /\ body_exc = "Exception" /\ wd_raised = "Exception"

\* C10: destroy(sandbox) never raises, for every Sandbox create can return
\* and every answer of the engine to the removal.
C10_DestroyNeverRaises ==
    (call = "destroy" /\ pc = "idle") => raised = "none"

\* create (alone or in run) has ended
CreateEnded == pc = "idle" /\ call \in {"create", "run"}

\* C11: a Sandbox returned by create after a 409 answer supports node
\* inspection, file upload, start, inspection and destroy like any other:
\* no operation fails on the handle itself (AttributeError).
C11_ConflictHandleWorks ==
    /\ raised # "AttributeError"
    /\ sandbox # None => The(sandbox).container = "Container"

\* C12: create (and run) given an unregistered profile name, or a workdir
\* that is no _WorkingDirectory, raises ValueError before any engine
\* operation: nothing is created and no request is issued.
C12_InvalidArguments ==
    /\ (args.profile \notin DOMAIN PROFILES \/ args.workdir \notin {"None", "workdir"}) =>
          /\ CreateEnded /\ raised = "ValueError"
          /\ reqs = <<>> /\ engine = "absent" /\ sandbox = None
    /\ (CreateEnded /\ raised = "ValueError") =>
          (reqs = <<>> /\ engine = "absent" /\ sandbox = None)

C12_Witness ==
    /\ CreateEnded /\ call = "run" /\ raised = "ValueError"
    /\ args.profile = "python" /\ args.workdir = "str"
    /\ reqs = <<>> /\ engine = "absent"

\* the place of an engine request in the life of one sandbox
Rank(req) ==
    CASE req = "create" -> 1
      [] req = "inspect_node" -> 2
      [] req = "put_archive" -> 3
      [] req = "attach" -> 4
      [] req = "start" -> 5
      [] req = "inspect" -> 6
      [] req = "remove" -> 7

\* C13: in every run the engine requests on the sandbox are issued in the
\* order create, put_archive, attach, start, inspect, remove, each at most
\* once and none before create; the inspection is skipped when the deadline
\* expired.
C13_RequestOrder ==
    call = "run" =>
        /\ \A i \in 1..Len(reqs) : \A j \in 1..Len(reqs) :
              i < j => Rank(reqs[i]) < Rank(reqs[j])
        /\ reqs # <<>> => reqs[1] = "create"
        /\ Count("start", reqs) = 1 => Count("attach", reqs) = 1
        /\ DeadlineExpired => Count("inspect", reqs) = 0

C13_Witness ==
    /\ call = "run" /\ pc = "idle" /\ raised = "none"
    /\ reqs = <<"create", "put_archive", "attach", "start", "inspect", "remove">>

\* C14: workdir.node is assigned at most once, by a create whose node
\* inspection reports a name, and never changes afterwards; a create request
\* issued with the workdir carries the constraint on that node once it is
\* assigned and no constraint before (nor without a workdir).
C14_NodeAssignedOnce ==
    /\ [][wd_node' # wd_node =>
            /\ wd_node = None /\ pc = "create_node"
            /\ reqs' = Append(reqs, "inspect_node")]_vars
    /\ [](pc = "create_node" =>
            environment = IF args.workdir = "workdir" THEN wd_node ELSE None)

C14_Witness ==
    /\ pc = "create_node" /\ args.workdir = "workdir"
    /\ wd_node = Some("node2") /\ environment = Some("node2")

\* C15: create with limits omitted or empty succeeds whenever the arguments
\* are valid and the engine accepts the requests: the Sandbox is returned
\* with realtime_limit 5.
C15_DefaultLimits ==
    (/\ pc = "idle" /\ call = "create"
     /\ IF given = None THEN TRUE ELSE DOMAIN The(given) = {}
     /\ raised \notin {"ValueError", "DockerError"}) =>
        /\ raised = "none" /\ sandbox # None
        /\ The(sandbox).realtime_limit = Some(5)

\* merge_limits_defaults has returned
Merged == pc = "merged" /\ raised = "none"
\* the limits value is falsy: None or an empty dict
Falsy(l) == IF l = None THEN TRUE ELSE DOMAIN The(l) = {}

\* C16: the merged limits hold L's value for every key of L and the default
\* value for every default key (cputime, memory) absent from L; for L empty
\* or None they are the defaults.
C16_MergeOverrides ==
    Merged =>
        IF Falsy(given) THEN merged = DEFAULT_LIMITS
        ELSE /\ \A k \in DOMAIN The(given) : merged[k] = The(given)[k]
             /\ \A k \in {"cputime", "memory"} \ DOMAIN The(given) :
                   merged[k] = DEFAULT_LIMITS[k]
             /\ DOMAIN merged = DOMAIN The(given) \cup DOMAIN DEFAULT_LIMITS

C16_Witness ==
    /\ Merged /\ given # None
    /\ DOMAIN The(given) = {"cputime"} /\ The(given)["cputime"] = Some(2)
    /\ merged["cputime"] = Some(2) /\ merged["memory"] = Some(64)

\* C17: for a non-empty L without the key realtime the merged realtime is
\* the merged cputime times 5; for L with the key realtime it is exactly
\* L's value.
C17_RealtimeDerived ==
    (Merged /\ ~Falsy(given)) =>
        IF "realtime" \in DOMAIN The(given)
        THEN merged["realtime"] = The(given)["realtime"]
        ELSE /\ merged["cputime"] # None
             /\ merged["realtime"] = Some(The(merged["cputime"]) * 5)

C17_Witness ==
    /\ Merged /\ given # None
    /\ DOMAIN The(given) = {"cputime", "memory"} /\ The(given)["cputime"] = Some(2)
    /\ merged["realtime"] = Some(10)

\* C18: a process cap given under the key processes or pids-limit reaches
\* the engine; create does not fail when it is given as pids-limit only.
C18_PidsLimitKey ==
    (/\ CreateEnded /\ given # None
     /\ IF given = None THEN FALSE ELSE "pids-limit" \in DOMAIN The(given)) =>
        raised # "KeyError"

\* C19: start accepts stdin that is None, bytes or str (a str is sent as its
\* UTF-8 encoding) and rejects every value of another type with TypeError
\* before it attaches to or starts the container.
C19_StdinTypes ==
    /\ pc = "communicate" =>
          /\ stdin_arg.type \in {"NoneType", "bytes", "str"}
          /\ stdin = IF stdin_arg.type = "str" THEN EncodeUtf8(stdin_arg.val)
                     ELSE stdin_arg.val
    /\ (StartEnded /\ stdin_arg.type \notin {"NoneType", "bytes", "str"}) =>
          (raised = "TypeError" /\ cpc = "idle")

\* the bytes docker_communicate was given to send
StdinGiven == StdinBytes(StartStdin(stdin_arg).stdin)

\* C20: for a non-empty stdin and any partial write sizes (0 included), the
\* bytes written followed by the bytes left are the stdin given, at every
\* step; the write half is shut down in the iteration in which nothing is
\* left, and a shutdown in the loop happens in no other iteration.
C20_WritesArePrefix ==
    /\ [](StdinGiven # <<>> => wrote \o stdin = StdinGiven)
    /\ [][(stdin # <<>> /\ stdin' = <<>>) => wr_shutdowns' = wr_shutdowns + 1]_vars
    /\ [][(cpc = "pump" /\ wr_shutdowns' # wr_shutdowns) =>
             (stdin # <<>> /\ stdin' = <<>>)]_vars

C20_Witness ==
    /\ pc = "communicate" /\ cpc = "loop" /\ StdinGiven = <<104, 105>>
    /\ wrote = <<104>> /\ stdin = <<105>> /\ wr_shutdowns = 0

\* C21: for every sequence of (selector, payload) frames, demultiplexing the
\* concatenation of their encodings returns as stdout the payloads of the
\* selector-1 frames and as stderr those of the selector-2 frames, each in
\* arrival order.
C21_DemuxRoundTrip ==
    pc = "demuxed" =>
        comm_out = [stdout |-> PayloadsOf(frames, 1), stderr |-> PayloadsOf(frames, 2)]

C21_Witness ==
    /\ pc = "demuxed"
    /\ frames = <<<<1, <<111>>>>, <<2, <<1>>>>, <<1, <<1>>>>>>
    /\ comm_out = [stdout |-> <<111, 1>>, stderr |-> <<1>>]

\* the files whose name is a string, and those whose name is a non-empty one
StringNamed(fs) ==
    SelectSeq(fs, LAMBDA f : IF f.name = None THEN FALSE ELSE The(f.name).type = "str")
Named(fs) == SelectSeq(StringNamed(fs), LAMBDA f : The(f.name).val # <<>>)
\* the members expected for the files fs: name, length and bytes of each
MembersFor(fs) ==
    [i \in 1..Len(fs) |->
        LET content == IF fs[i].content = None THEN <<>> ELSE The(fs[i].content)
        IN [name |-> The(fs[i].name).val, size |-> Len(content), data |-> content]]

\* C22 (as stated): the archive built by _write_files holds, in input order,
\* one member for every file whose name is a string, with that name and the
\* file's content bytes and length, and no member for any other file.
C22_EveryStringName == pc = "written" => tarball = MembersFor(StringNamed(files))

\* C22 (amended): the same for every file whose name is a non-empty string;
\* a file whose name is missing, not a string or the empty string has no
\* member.
C22_ArchiveMembers == pc = "written" => tarball = MembersFor(Named(files))

C22_Witness ==
    /\ pc = "written" /\ Len(files) = 2
    /\ files[1].name = Some(PyValue("int", <<1>>))
    /\ files[2] = [name |-> Some(PyValue("str", <<97>>)), content |-> Some(<<120>>)]
    /\ tarball = <<[name |-> <<97>>, size |-> 1, data |-> <<120>>]>>

\* C23: after configure(P1) and then configure(P2) the profile names create
\* resolves are exactly those of P2 (a name that was only in P1 is not found).
C23_ConfigureReplaces ==
    Len(configured) = 2 =>
        /\ DOMAIN PROFILES = DOMAIN configured[2]
        /\ lookup.name # "none" =>
              (lookup.exc = "none" <=> lookup.name \in DOMAIN configured[2])

\* the keyword arguments the registered profile n was constructed from: those
\* of the last configure call that names it
LastKwargs(n) ==
    LET calls == {i \in 1..Len(configured) : n \in DOMAIN configured[i]}
        last == CHOOSE i \in calls : \A j \in calls : j <= i
    IN configured[last][n]

\* C25: a Profile constructed without a user argument has user "sandbox", and
\* create hands that user to the container it creates from the profile.
C25_DefaultUser ==
    /\ \A n \in DOMAIN PROFILES :
          LastKwargs(n).user = None => PROFILES[n].user = "sandbox"
    /\ (lookup.name # "none" /\ lookup.exc = "none") =>
          lookup.user = Some(PROFILES[lookup.name].user)

\* C24: every call of start on a sandbox, the first or a later one, begins
\* with a fresh result and an empty stream buffer; the stdout and stderr it
\* returns are the demultiplexed bytes read during that call, and empty when
\* the call timed out.
C24_StartIsFresh ==
    /\ [][(pc # "communicate" /\ pc' = "communicate") =>
            /\ result' = Some([exit_code |-> None, stdout |-> <<>>, stderr |-> <<>>,
                               duration |-> None, timeout |-> FALSE,
                               oom_killed |-> FALSE])
            /\ stream_data' = <<>> /\ comm_out' = NoOut]_vars
    /\ [](StartReturned =>
            IF cpc = "returned"
            THEN /\ The(result).stdout = demultiplex_docker_stream(stream_data).stdout
                 /\ The(result).stderr = demultiplex_docker_stream(stream_data).stderr
            ELSE The(result).stdout = <<>> /\ The(result).stderr = <<>>)

C24_Witness ==
    /\ StartReturned /\ call = "start" /\ Count("attach", reqs) = 2
    /\ Count("inspect", reqs) = 2
    /\ The(result).stdout = <<>> /\ The(result).stderr = <<101>>

\* C26: when several threads call get_docker_client with the same key, one
\* client is constructed for that key and every caller receives that client.
C26_OneClientPerKey ==
    /\ \A k \in ClientKeys : Count(k, built) <= 1
    /\ \A t, u \in Threads :
          (threads[t].pc = "done" /\ threads[u].pc = "done"
           /\ threads[t].key = threads[u].key) => threads[t].ret = threads[u].ret

\* the clock shows the timeout or more
DeadlinePassed == IF timeout = None THEN FALSE ELSE elapsed >= Seconds(The(timeout))
Breaks == {"eof", "ConnectionResetError", "BrokenPipeError"}

\* C27 as stated: docker_communicate raises TimeoutError exactly when the
\* while condition is evaluated with the deadline passed and no end of
\* stream, connection reset or broken pipe observed; once one of them is
\* observed it returns, also when the deadline passed during that iteration.
C27_TimeoutErrorIff ==
    /\ [](DeadlineExpired => (DeadlinePassed /\ broke = "none"))
    /\ [][(cpc = "loop" /\ DeadlinePassed) =>
             (cpc' = "raised" /\ comm_exc' = "TimeoutError" /\ sock' = "closed")]_vars
    /\ [](broke \in Breaks => (cpc = "returned" /\ comm_exc = "none"))
    /\ [](cpc = "returned" => broke \in Breaks)

\* C27, amended: a TimeoutError leaves docker_communicate either from the
\* else clause of the loop, after the socket was closed, exactly when the
\* while condition is evaluated with the deadline passed and no break, or
\* from the body of the loop, raised by a socket read or write and not
\* caught; once end of stream, a connection reset on read or a broken pipe on
\* write is observed it returns, also when the deadline passed during that
\* iteration.
C27_DeadlineTimeoutError ==
    /\ [][(cpc # "raised" /\ cpc' = "raised" /\ comm_exc' = "TimeoutError") =>
             IF cpc = "loop" THEN DeadlinePassed /\ broke = "none" /\ sock' = "closed"
             ELSE cpc = "pump" /\ sock' = "open"]_vars
    /\ [][(cpc = "loop" /\ DeadlinePassed) =>
             (cpc' = "raised" /\ comm_exc' = "TimeoutError" /\ sock' = "closed")]_vars
    /\ [](broke \in Breaks => (cpc = "returned" /\ comm_exc = "none"))
    /\ [](cpc = "returned" => broke \in Breaks)

\* the deadline passed in the iteration that met the end of the stream
C27_Witness ==
    /\ cpc = "returned" /\ broke = "eof" /\ DeadlinePassed
    /\ elapsed = Seconds(The(timeout))

\* C28: with stdin None or empty, docker_communicate shuts down the write
\* half of the attach socket after the attach and before the start request,
\* once, and writes no byte to the socket.
C28_EmptyStdinShutdown ==
    StdinGiven = <<>> =>
        /\ wrote = <<>>
        /\ cpc = "attach" => (wr_shutdowns = 0 /\ sock = "none")
        /\ cpc = "start" => (wr_shutdowns = 1 /\ Count("start", reqs) = 0)
        /\ Count("start", reqs) > 0 => (wr_shutdowns = 1 /\ Count("attach", reqs) = 1)

C28_Witness ==
    /\ stdin_arg = NoStdin /\ cpc = "start" /\ sock = "open"
    /\ reqs = <<"create", "attach">> /\ wr_shutdowns = 1

\* C29: whenever docker_communicate has closed the attach socket, the write
\* half was shut down exactly once between the attach and the close.
C29_ShutdownOnce == sock = "closed" => wr_shutdowns = 1

\* C30: when a read meets a connection reset or a write a broken pipe, the
\* loop is left, the socket closed and the demultiplexed bytes read so far
\* returned: neither that error nor TimeoutError is raised, and start takes
\* the branch that inspects the container.
C30_ResetAndBrokenPipe ==
    broke \in {"ConnectionResetError", "BrokenPipeError"} =>
        /\ cpc = "returned" /\ comm_exc = "none" /\ sock = "closed"
        /\ comm_out = demultiplex_docker_stream(stream_data)
        /\ ENABLED StartElse /\ ~ENABLED StartExcept

\* a broken pipe after the deadline, with output read before
C30_Witness ==
    /\ broke = "BrokenPipeError" /\ cpc = "returned" /\ DeadlinePassed
    /\ comm_out = [stdout |-> <<111>>, stderr |-> <<>>] /\ stdin # <<>>

\* an OSError left the loop: os.read or os.write raised it and nothing on
\* the way closed the socket, while the TimeoutError of line 236 follows
\* sock.close()
SocketRaised == cpc = "raised" /\ comm_exc \in OSErrors /\ sock = "open"

\* C31: every OSError a socket read or write raises in the loop, other than
\* a connection reset on read, a broken pipe on write and the recoverable
\* errnos, leaves docker_communicate and makes start raise DockerError
\* instead of returning a result.
C31_SocketErrorsWrapped ==
    SocketRaised =>
        /\ ENABLED (StartExcept /\ raised' = "DockerError")
        /\ ~ENABLED (StartExcept /\ raised' # "DockerError")
        /\ ~ENABLED StartElse

\* C32: when the communicator raises TimeoutError, start issues no request
\* to the engine and returns a result in which timeout is true and every
\* other field has its initial value: exit_code None, stdout and stderr
\* empty, duration None, oom_killed false, whatever was read from the stream
\* before.
C32_TimeoutResult ==
    /\ [][(pc = "communicate" /\ DeadlineExpired) =>
             (reqs' = reqs /\ attrs' = attrs /\ engine' = engine)]_vars
    /\ []((StartEnded /\ DeadlineExpired) =>
             /\ raised = "none" /\ attrs = None
             /\ result = Some([exit_code |-> None, stdout |-> <<>>, stderr |-> <<>>,
                               duration |-> None, timeout |-> TRUE,
                               oom_killed |-> FALSE]))

\* a start that timed out after output had been read
C32_Witness ==
    /\ StartReturned /\ DeadlineExpired /\ The(result).timeout
    /\ demultiplex_docker_stream(stream_data) = [stdout |-> <<111>>, stderr |-> <<>>]
    /\ The(result).stdout = <<>> /\ reqs = <<"create", "attach", "start">>

\* the bytes of the payloads of the frames fs with the given selector that
\* are among the first avail bytes of their encoding
RECURSIVE Arrived(_, _, _)
Arrived(fs, avail, selector) ==
    IF fs = <<>> \/ avail < STREAM_HEADER_SIZE_BYTES THEN <<>>
    ELSE LET payload == Head(fs)[2]
             present == Min(Len(payload), avail - STREAM_HEADER_SIZE_BYTES)
         IN (IF Head(fs)[1] = selector THEN SubSeq(payload, 1, present) ELSE <<>>)
            \o Arrived(Tail(fs), avail - STREAM_HEADER_SIZE_BYTES - Len(payload), selector)

\* C33: on any byte string demultiplex_docker_stream gives stdout the
\* payloads of selector 1 and stderr those of selector 2, skips the payload
\* of a frame of selector 0 or 3 and reads the next header after it, drops a
\* trailing fragment of less than 8 bytes, and takes from a last frame
\* longer than the rest of the data the bytes that are there.
C33_DemuxAnyBytes ==
    pc = "streamed" =>
        comm_out = [stdout |-> Arrived(frames, Len(stream_data), 1),
                    stderr |-> Arrived(frames, Len(stream_data), 2)]

\* a frame of selector 3, then one of stderr, then one of stdout that
\* declares two bytes of which one arrived
C33_Witness ==
    /\ pc = "streamed"
    /\ frames = <<<<3, <<111>>>>, <<2, <<111>>>>, <<1, <<111, 111>>>>>>
    /\ Len(stream_data) = Len(Multiplex(frames)) - 1
    /\ comm_out = [stdout |-> <<111>>, stderr |-> <<111>>]

\* C34: a limit given as None means unlimited: merging limits in which
\* cputime, realtime or memory is None does not fail, and the merged limits
\* keep None for that key.
C34_NoneIsUnlimited ==
    (pc = "merged" /\ given # None) =>
        /\ raised = "none"
        /\ \A k \in DOMAIN The(given) : The(given)[k] = None => merged[k] = None

\* C35: the attach socket docker_communicate opened is closed on every way
\* out of the function: return, TimeoutError, a start request that fails,
\* an error of a socket read or write.
C35_SocketClosedOnExit == (CommDone /\ sock # "none") => sock = "closed"

\* C36: merge_limits_defaults leaves the caller's limits object as it was,
\* so that a second merge of the same object, after the caller has set
\* cputime to another value, gives what the merge of a fresh copy with that
\* cputime gives.
C36_MergeHasNoSideEffect ==
    pc = "merged" =>
        /\ limits = given
        /\ (raised = "none" /\ ~Falsy(given)) =>
              \A v \in LimitValues :
                 merge_limits_defaults(Some(DictSet(The(limits), "cputime", v))).merged
                   = merge_limits_defaults(Some(DictSet(The(given), "cputime", v))).merged

\* C37: the client get_docker_client returns is bound to the URL in force
\* for that call, the base_url argument if given and else the configured
\* DOCKER_URL, also after configure was called with another docker_url.
C37_ClientBoundToUrl ==
    [][\A t \in Threads :
         (threads[t].pc = "return" /\ threads'[t].pc = "done") =>
            bound[threads'[t].ret] = Or(threads[t].base_url, DOCKER_URL)]_vars

====
